---- MODULE Spec2Model ----
(***************************************************************************)
(* LinestringsSplitter: the splitting and transaction batching of          *)
(* Output (src/src/output.cpp) driven by main                              *)
(* (src/src/linestringssplitter.cpp).                                      *)
(*                                                                         *)
(* Coordinates are integers.  Distances are computed as the code computes  *)
(* them, in integer arithmetic: sqrt is the integer square root, radians   *)
(* are held in micro-radians and the Earth radius in kilometres, so that   *)
(* every intermediate value fits TLC's integers.  The points of PointSet   *)
(* have exact planar distances 3, 4 and 5.                                 *)
(*                                                                         *)
(* A linestring has at least one point (an OGRLineString with no point is  *)
(* an empty geometry).                                                     *)
(***************************************************************************)
EXTENDS Integers, Sequences, FiniteSets, TLC

VARIABLES
    argv_geographic,      \* the command line holds --geographic
    options,              \* Options: min_length, max_length, transaction_size, geographic
    srs_geographic,       \* m_input_srs->IsGeographic()
    m_geographic_mode,    \* Output::m_geographic_mode
    m_transaction_count,  \* Output::m_transaction_count
    pc,                   \* position of the (single) thread of control
    consumed,             \* linestrings (and empty geometries) read so far
    geom,                 \* geometry of the feature being processed
    member,               \* loop index of split_and_write_feature
    line,                 \* the linestring split_linestring / skip_ring works on
    i,                    \* loop index of split_linestring
    length,               \* accumulator of split_linestring
    coords,               \* x_coords/y_coords of split_linestring, zipped
    parts,                \* segments handed to write_part for `line`, in order
    last,                 \* outcome of the last split_linestring / skip_ring call
    txnOpen,              \* output layer: transactions started and not committed
    calls,                \* output layer calls issued by the last step, in order
    exceeded,             \* the last step found the counter above transaction_size
    sinceCommit,          \* segments written since the last batch reset
    synced,               \* SyncToDisk has been called
    exit_status,          \* process exit status (-1: still running)
    fields,               \* field values of the feature being processed
    observing,            \* the run's input and output are being recorded
    handled,              \* when observing: linestrings handed to split_linestring
    written               \* when observing: features created in the output layer

vars == <<argv_geographic, options, srs_geographic, m_geographic_mode,
          m_transaction_count, pc, consumed, geom, member, line, i, length,
          coords, parts, last, txnOpen, calls, exceeded, sinceCommit, synced,
          exit_status, fields, observing, handled, written>>

(***************************************************************************)
(* Bounds of the model.                                                    *)
(***************************************************************************)
MaxLines == 3         \* linestrings (and empty geometries) of the input layer
MaxPoints == 3        \* points of one linestring of a run
MaxSplitPoints == 4   \* points of the linestring split alone
MaxRingPoints == 6    \* points of the linestring handed to skip_ring alone
MaxObservedLines == 2   \* linestrings (and empty geometries) of an observed run
MaxObservedPoints == 2  \* points of one linestring of an observed run

(***************************************************************************)
(* Inputs.                                                                 *)
(***************************************************************************)
PointSet == {<<0, 0>>, <<3, 0>>, <<0, 4>>}
RunPointSet == {<<0, 0>>, <<0, 4>>}

RECURSIVE SeqsUpTo(_, _)
SeqsUpTo(S, n) ==
    IF n = 0 THEN {<<>>}
    ELSE LET shorter == SeqsUpTo(S, n - 1)
         IN shorter \cup {Append(s, x) : s \in {t \in shorter : Len(t) = n - 1}, x \in S}

\* the linestrings of the features of a run
RunLines == SeqsUpTo(RunPointSet, MaxPoints) \ {<<>>}

\* the linestrings of the features of an observed run
ObservedLines == SeqsUpTo(RunPointSet, MaxObservedPoints) \ {<<>>}

\* the linestrings split alone
SplitLines == SeqsUpTo(PointSet, MaxSplitPoints) \ {<<>>}

\* the linestrings handed to skip_ring alone
RingLines == SeqsUpTo(PointSet, MaxRingPoints) \ {<<>>}

MinLengths == {0, 4}
MaxLengths == {-1, 4, 500}
TransactionSizes == {0, 1, 2}

\* field values of a feature: of the features of a run, and of the features
\* of an observed run
RunFields == {<<"a", "x">>}
FeatureFields == {<<"a", "x">>, <<"b", "y">>}

\* no feature is being processed
NoGeometry == [type |-> "none", n |-> 0]

\* a geometry: its type and the number of its linestrings (0: empty)
Geometries(maxLines) ==
    [type : {"LineString"}, n : {0, 1}]
        \cup [type : {"MultiLineString"}, n : 0 .. maxLines]

(***************************************************************************)
(* Constants of Output.                                                    *)
(***************************************************************************)
PI_MICRO == 3141592
EARTH_RADIUS_IN_KM == 6372
RING_POINTS == 5

(***************************************************************************)
(* Distance metric.                                                        *)
(***************************************************************************)
RECURSIVE SqrtSearch(_, _, _)
SqrtSearch(n, lo, hi) ==
    IF lo >= hi THEN lo
    ELSE LET mid == (lo + hi + 1) \div 2
         IN IF mid * mid <= n THEN SqrtSearch(n, mid, hi)
            ELSE SqrtSearch(n, lo, mid - 1)

Abs(x) == IF x < 0 THEN -x ELSE x

\* sqrt of cmath on a sum of two squares a*a + b*b, rounded down
sqrt(a, b) == SqrtSearch(a * a + b * b, 0, Abs(a) + Abs(b))

\* degree * (PI / 180): micro-radians, rounded towards zero
deg_to_rad(degree) ==
    IF degree >= 0 THEN (degree * PI_MICRO) \div 180
    ELSE -(((-degree) * PI_MICRO) \div 180)

\* EARTH_RADIUS * deg_to_rad(delta): kilometres, rounded towards zero
OnSphere(delta) ==
    LET rad == deg_to_rad(delta)
    IN IF rad >= 0 THEN (EARTH_RADIUS_IN_KM * rad) \div 1000000
       ELSE -((EARTH_RADIUS_IN_KM * (-rad)) \div 1000000)

distance(geographic, p1, p2) ==
    IF geographic
    THEN sqrt(OnSphere(p2[1] - p1[1]), OnSphere(p2[2] - p1[2]))
    ELSE sqrt(p2[1] - p1[1], p2[2] - p1[2])

(***************************************************************************)
(* Output::skip_ring                                                       *)
(***************************************************************************)
get_IsClosed(l) == l[1] = l[Len(l)]

\* the for loop of skip_ring from index k (0-based) on, with `len` accumulated
RECURSIVE SkipRingLoop(_, _, _, _)
SkipRingLoop(geographic, l, k, len) ==
    IF k = Len(l) THEN len
    ELSE SkipRingLoop(geographic, l, k + 1,
                      len + distance(geographic, l[k], l[k + 1]))

skip_ring_ge(geographic, l, min_length) ==
    IF get_IsClosed(l) /\ Len(l) >= RING_POINTS THEN FALSE
    ELSE SkipRingLoop(geographic, l, 1, 0) < min_length

skip_ring(geographic, l, min_length) ==
    IF get_IsClosed(l) /\ Len(l) > RING_POINTS THEN FALSE
    ELSE SkipRingLoop(geographic, l, 1, 0) < min_length

(***************************************************************************)
(* Conditions and buffer handling of Output::split_linestring              *)
(***************************************************************************)
SplitCond_ge(len, max_length) == len >= max_length

\* line 133
SplitCond(len, max_length) == len > max_length

BufferAfterSplit_empty(p) == <<>>

\* lines 135-138
BufferAfterSplit(p) == <<p>>

TailCond_two(buf) == Len(buf) > 2

LengthAfterSplit_kept(len) == len

\* line 140
LengthAfterSplit(len) == 0

\* line 151
TailCond(buf) == Len(buf) > 1

BatchCond_late(count, transaction_size) == count > transaction_size + 1

\* line 142
BatchCond(count, transaction_size) == count > transaction_size

StartsTransaction_early(skipped, transaction_size) == transaction_size = 0

\* lines 115-118: split_linestring calls StartTransaction
StartsTransaction(skipped, transaction_size) ==
    ~skipped /\ transaction_size = 0

(***************************************************************************)
(* The output layer (OGRLayer): its transaction state after a sequence of  *)
(* calls.  A successful StartTransaction opens one more transaction, a     *)
(* successful CommitTransaction closes one if any is open; a failed call   *)
(* and CreateFeature leave the transaction state alone.                    *)
(***************************************************************************)
Call(op, ok) == [op |-> op, ok |-> ok]

RECURSIVE LayerAfter(_, _)
LayerAfter(open, cs) ==
    IF cs = <<>> THEN open
    ELSE LET c == Head(cs)
             next == IF c.op = "StartTransaction" /\ c.ok THEN open + 1
                     ELSE IF c.op = "CommitTransaction" /\ c.ok /\ open > 0
                          THEN open - 1
                          ELSE open
         IN LayerAfter(next, Tail(cs))

\* the calls of the batch block, lines 142-146
BatchCalls(cok, sok) ==
    <<Call("CommitTransaction", cok)>>
        \o (IF ~cok THEN <<Call("StartTransaction", sok)>> ELSE <<>>)

\* line 143: the condition under which the batch block exits
BatchFails(cok, sok) == ~cok /\ ~sok

(***************************************************************************)
(* main: option parsing, then the construction of Output (init).           *)
(***************************************************************************)
\* Options as main leaves them: -m, -M and --gt set min_length, max_length
\* and transaction_size; nothing sets geographic
ParsedOptions(mins) ==
    [min_length : mins, max_length : MaxLengths,
     transaction_size : TransactionSizes, geographic : {FALSE}]

\* the state after the construction of Output
Constructed(mins) ==
    /\ options \in ParsedOptions(mins)
    /\ srs_geographic \in BOOLEAN
    /\ m_geographic_mode = (srs_geographic \/ options.geographic)
    /\ m_transaction_count = 0
    /\ i = 0
    /\ length = 0
    /\ coords = <<>>
    /\ parts = <<>>
    /\ last = "none"
    /\ txnOpen = 0
    /\ calls = <<>>
    /\ exceeded = FALSE
    /\ sinceCommit = 0
    /\ synced = FALSE
    /\ handled = <<>>
    /\ written = <<>>

Init ==
    /\ argv_geographic \in BOOLEAN
    /\ Constructed(MinLengths)
    /\ observing = FALSE
    /\ fields = <<>>
    \* --geographic is no entry of long_options: getopt_long reports it as
    \* unknown and main exits
    /\ pc = IF argv_geographic THEN "aborted" ELSE "run"
    /\ exit_status = IF argv_geographic THEN 1 ELSE -1
    /\ consumed = 0
    /\ geom = NoGeometry
    /\ member = 0
    /\ line = <<>>

(***************************************************************************)
(* Output::write_part: the field values of the new feature, copied one by  *)
(* one from the source feature.                                            *)
(***************************************************************************)
RECURSIVE CopyLoop(_, _, _, _)
CopyLoop(f, k, count, new) ==
    IF k >= count THEN new
    ELSE CopyLoop(f, k + 1, count, [new EXCEPT ![k + 1] = f[k + 1]])

CopyFields_short(f) ==
    CopyLoop(f, 0, Len(f) - 1, [k \in 1 .. Len(f) |-> "unset"])

\* lines 96-100
CopyFields(f) ==
    CopyLoop(f, 0, Len(f), [k \in 1 .. Len(f) |-> "unset"])

(***************************************************************************)
(* Helpers of the actions.                                                 *)
(***************************************************************************)
\* the record of a step, when the run is observed: the linestring the step
\* handed to split_linestring and the feature the step created
Observer ==
    /\ handled' = IF observing /\ pc = "feature"
                  THEN Append(handled, [line |-> line', fields |-> fields])
                  ELSE handled
    /\ written' = IF observing /\ Len(parts') = Len(parts) + 1
                  THEN Append(written, [pts |-> parts'[Len(parts')].pts,
                                        fields |-> parts'[Len(parts')].fields])
                  ELSE written

\* exit(1)
Exit ==
    /\ pc' = "aborted"
    /\ exit_status' = 1

\* split_linestring returns into the loop of split_and_write_feature, which
\* returns into the loop of run after the last linestring of the geometry;
\* the locals of split_linestring are gone, and so is the feature after its
\* last linestring (DestroyFeature)
Return ==
    /\ member' = IF member + 1 >= geom.n THEN 0 ELSE member + 1
    /\ geom' = IF member + 1 >= geom.n THEN NoGeometry ELSE geom
    /\ pc' = IF member + 1 >= geom.n THEN "run" ELSE "feature"
    /\ i' = 0
    /\ length' = 0
    /\ coords' = <<>>

(***************************************************************************)
(* Output::run, one iteration of the while loop: GetNextFeature, then the  *)
(* dispatch of split_and_write_feature on the geometry.                    *)
(***************************************************************************)
RunOn(fieldValues, maxLines) ==
    /\ pc = "run"
    /\ \/ /\ pc' = "finalize"
          /\ fields' = <<>>
          /\ geom' = NoGeometry
          /\ UNCHANGED <<consumed, member>>
       \/ \E g \in Geometries(maxLines), f \in fieldValues :
                /\ fields' = IF g.n = 0 THEN <<>> ELSE f
                /\ consumed + (IF g.n = 0 THEN 1 ELSE g.n) <= maxLines
                /\ consumed' = consumed + (IF g.n = 0 THEN 1 ELSE g.n)
                /\ geom' = IF g.n = 0 THEN NoGeometry ELSE g
                /\ member' = 0
                /\ pc' = IF g.n = 0 THEN "run" ELSE "feature"
    /\ line' = <<>>
    /\ parts' = <<>>
    /\ last' = "none"
    /\ calls' = <<>>
    /\ exceeded' = FALSE
    /\ UNCHANGED <<argv_geographic, options, srs_geographic, m_geographic_mode,
                   observing,
                   m_transaction_count, i, length, coords, txnOpen,
                   sinceCommit, synced, exit_status>>
    /\ Observer

run == RunOn(RunFields, MaxLines)

(***************************************************************************)
(* Output::split_linestring up to the loop: skip_ring, StartTransaction.   *)
(***************************************************************************)
SplitLinestringOn(lines) ==
    /\ pc = "feature"
    /\ \E l \in lines,
          sok \in (IF options.transaction_size = 0 THEN BOOLEAN ELSE {TRUE}) :
          \E skipped \in {skip_ring(m_geographic_mode, l, options.min_length)} :
          LET starts == StartsTransaction(skipped, options.transaction_size)
          IN /\ line' = l
             /\ parts' = <<>>
             /\ exceeded' = FALSE
             /\ calls' = IF starts THEN <<Call("StartTransaction", sok)>>
                         ELSE <<>>
             /\ txnOpen' = LayerAfter(txnOpen, calls')
             /\ last' = IF skipped THEN "skipped" ELSE "splitting"
             /\ IF starts /\ ~sok
                THEN /\ Exit
                     /\ UNCHANGED <<i, length, coords, member, geom>>
                ELSE IF skipped
                THEN /\ Return
                     /\ UNCHANGED exit_status
                ELSE /\ length' = 0
                     /\ coords' = <<>>
                     /\ i' = 0
                     /\ pc' = "loop"
                     /\ UNCHANGED <<member, geom, exit_status>>
    /\ UNCHANGED <<argv_geographic, options, srs_geographic, m_geographic_mode,
                   fields, observing,
                   m_transaction_count, consumed, sinceCommit, synced>>
    /\ Observer

split_linestring == SplitLinestringOn(RunLines)

(***************************************************************************)
(* Output::split_linestring, one iteration of the for loop, write_part and *)
(* the batch block included.                                               *)
(***************************************************************************)
split_loop ==
    /\ pc = "loop"
    /\ i < Len(line)
    /\ LET p == line[i + 1]
           len1 == IF i > 0
                   THEN length + distance(m_geographic_mode, line[i], p)
                   ELSE length
           buf1 == Append(coords, p)
           count1 == m_transaction_count + 1
           batch == BatchCond(count1, options.transaction_size)
       IN IF ~SplitCond(len1, options.max_length)
          THEN /\ length' = len1
               /\ coords' = buf1
               /\ i' = i + 1
               /\ calls' = <<>>
               /\ exceeded' = FALSE
               /\ UNCHANGED <<m_transaction_count, pc, parts, txnOpen,
                              sinceCommit, exit_status>>
          ELSE \E wok \in BOOLEAN :
               \E cok \in (IF wok /\ batch THEN BOOLEAN ELSE {TRUE}) :
               \E sok \in (IF wok /\ batch /\ ~cok THEN BOOLEAN ELSE {TRUE}) :
                  IF ~wok
                  THEN \* CreateFeature failed in write_part
                       /\ calls' = <<Call("CreateFeature", FALSE)>>
                       /\ exceeded' = FALSE
                       /\ Exit
                       /\ UNCHANGED <<m_transaction_count, i, length, coords,
                                      parts, txnOpen, sinceCommit>>
                  ELSE /\ parts' = Append(parts, [pts |-> buf1, tail |-> FALSE,
                                               fields |-> CopyFields(fields)])
                       /\ coords' = BufferAfterSplit(p)
                       /\ length' = LengthAfterSplit(len1)
                       /\ exceeded' = batch
                       /\ calls' = <<Call("CreateFeature", TRUE)>>
                                       \o (IF batch THEN BatchCalls(cok, sok)
                                           ELSE <<>>)
                       /\ txnOpen' = LayerAfter(txnOpen, calls')
                       /\ IF batch /\ BatchFails(cok, sok)
                          THEN /\ m_transaction_count' = count1
                               /\ sinceCommit' = sinceCommit + 1
                               /\ Exit
                               /\ UNCHANGED i
                          ELSE /\ m_transaction_count' =
                                      IF batch THEN 0 ELSE count1
                               /\ sinceCommit' =
                                      IF batch THEN 0 ELSE sinceCommit + 1
                               /\ i' = i + 1
                               /\ UNCHANGED <<pc, exit_status>>
    /\ UNCHANGED <<argv_geographic, options, srs_geographic, m_geographic_mode,
                   fields, observing,
                   consumed, geom, member, line, last, synced>>
    /\ Observer

(***************************************************************************)
(* Output::split_linestring after the loop: the trailing remainder.        *)
(***************************************************************************)
split_tail ==
    /\ pc = "loop"
    /\ i = Len(line)
    /\ exceeded' = FALSE
    /\ IF TailCond(coords)
       THEN \E wok \in BOOLEAN :
               /\ calls' = <<Call("CreateFeature", wok)>>
               /\ IF wok
                  THEN /\ parts' = Append(parts, [pts |-> coords, tail |-> TRUE,
                                               fields |-> CopyFields(fields)])
                       /\ sinceCommit' = sinceCommit + 1
                       /\ last' = "split"
                       /\ Return
                       /\ UNCHANGED exit_status
                  ELSE /\ Exit
                       /\ UNCHANGED <<parts, sinceCommit, last, member, geom,
                                      i, length, coords>>
       ELSE /\ calls' = <<>>
            /\ last' = "split"
            /\ Return
            /\ UNCHANGED <<parts, sinceCommit, exit_status>>
    /\ UNCHANGED <<argv_geographic, options, srs_geographic, m_geographic_mode,
                   fields, observing,
                   m_transaction_count, consumed, line, txnOpen, synced>>
    /\ Observer

(***************************************************************************)
(* Output::finalize                                                        *)
(***************************************************************************)
finalize ==
    /\ pc = "finalize"
    /\ \E cok \in BOOLEAN :
          /\ calls' = <<Call("CommitTransaction", cok)>>
          /\ txnOpen' = LayerAfter(txnOpen, calls')
          /\ IF cok
             THEN /\ synced' = TRUE
                  /\ pc' = "done"
                  /\ exit_status' = 0
             ELSE /\ Exit
                  /\ UNCHANGED synced
    /\ exceeded' = FALSE
    /\ UNCHANGED <<argv_geographic, options, srs_geographic, m_geographic_mode,
                   fields, observing,
                   m_transaction_count, consumed, geom, member, line, i,
                   length, coords, parts, last, sinceCommit>>
    /\ Observer

Next ==
    \/ run
    \/ split_linestring
    \/ split_loop
    \/ split_tail
    \/ finalize

Spec == Init /\ [][Next]_vars

(***************************************************************************)
(* One linestring split alone: the state in which run has read a feature   *)
(* with a LineString geometry, then split_linestring on it.                *)
(***************************************************************************)
InitSplit ==
    /\ argv_geographic = FALSE
    /\ Constructed(MinLengths)
    /\ observing = FALSE
    /\ fields \in RunFields
    /\ pc = "feature"
    /\ exit_status = -1
    /\ consumed = 1
    /\ geom = [type |-> "LineString", n |-> 1]
    /\ member = 0
    /\ line = <<>>

split_one == SplitLinestringOn(SplitLines)

NextSplit ==
    \/ split_one
    \/ split_loop
    \/ split_tail

SpecSplit == InitSplit /\ [][NextSplit]_vars

(***************************************************************************)
(* skip_ring alone, on one linestring.                                     *)
(***************************************************************************)
RingMinLengths == {0, 7, 1000}

InitRing ==
    /\ argv_geographic = FALSE
    /\ Constructed(RingMinLengths)
    /\ observing = FALSE
    /\ fields \in RunFields
    /\ options.max_length = 500
    /\ options.transaction_size = 0
    /\ pc = "skip_ring"
    /\ exit_status = -1
    /\ consumed = 1
    /\ geom = [type |-> "LineString", n |-> 1]
    /\ member = 0
    /\ line \in RingLines

skip_ring_call ==
    /\ pc = "skip_ring"
    /\ last' = IF skip_ring(m_geographic_mode, line, options.min_length)
               THEN "skipped" ELSE "kept"
    /\ pc' = "returned"
    /\ UNCHANGED <<argv_geographic, options, srs_geographic, m_geographic_mode,
                   fields, observing,
                   m_transaction_count, consumed, geom, member, line, i,
                   length, coords, parts, txnOpen, calls, exceeded,
                   sinceCommit, synced, exit_status>>
    /\ Observer

NextRing == skip_ring_call

SpecRing == InitRing /\ [][NextRing]_vars

(***************************************************************************)
(* An observed run: the features carry field values, and the linestrings   *)
(* handed to split_linestring and the features created are recorded.       *)
(***************************************************************************)
InitOutput ==
    /\ argv_geographic = FALSE
    /\ Constructed(MinLengths)
    /\ options.transaction_size = 1
    /\ observing = TRUE
    /\ fields = <<>>
    /\ pc = "run"
    /\ exit_status = -1
    /\ consumed = 0
    /\ geom = NoGeometry
    /\ member = 0
    /\ line = <<>>

run_observed == RunOn(RunFields, MaxObservedLines)

split_observed == SplitLinestringOn(ObservedLines)

NextOutput ==
    \/ run_observed
    \/ split_observed
    \/ split_loop
    \/ split_tail
    \/ finalize

SpecOutput == InitOutput /\ [][NextOutput]_vars

(***************************************************************************)
(* A run whose features carry different field values.                      *)
(***************************************************************************)
InitFields ==
    /\ argv_geographic = FALSE
    /\ Constructed(MinLengths)
    /\ observing = FALSE
    /\ fields = <<>>
    /\ pc = "run"
    /\ exit_status = -1
    /\ consumed = 0
    /\ geom = NoGeometry
    /\ member = 0
    /\ line = <<>>

run_features == RunOn(FeatureFields, MaxObservedLines)

NextFields ==
    \/ run_features
    \/ split_observed
    \/ split_loop
    \/ split_tail
    \/ finalize

SpecFields == InitFields /\ [][NextFields]_vars

TypeOK ==
    /\ pc \in {"run", "feature", "loop", "finalize", "done", "aborted",
              "skip_ring", "returned"}
    /\ m_transaction_count \in Nat
    /\ txnOpen \in Nat
    /\ pc = "loop" => i \in 0 .. Len(line)

(***************************************************************************)
(* Vocabulary of the properties.                                           *)
(***************************************************************************)
\* cumulative length of a point sequence: the sum of its hops
RECURSIVE PathLength(_)
PathLength(pts) ==
    IF Len(pts) <= 1 THEN 0
    ELSE PathLength(SubSeq(pts, 1, Len(pts) - 1))
             + distance(m_geographic_mode, pts[Len(pts) - 1], pts[Len(pts)])

\* the segments joined, each shared boundary point kept once
RECURSIVE Joined(_)
Joined(segs) ==
    IF Len(segs) = 0 THEN <<>>
    ELSE IF Len(segs) = 1 THEN segs[1].pts
    ELSE Joined(SubSeq(segs, 1, Len(segs) - 1)) \o Tail(segs[Len(segs)].pts)

Issued(op) == \E k \in 1 .. Len(calls) : calls[k].op = op

\* split_linestring has returned for `line` without skipping it
SplitDone == last = "split"

(***************************************************************************)
(* C1.  As claimed: no segment emitted inside the loop of split_linestring *)
(* has a cumulative length greater than max_length (only the trailing      *)
(* remainder may).                                                         *)
(***************************************************************************)
C1_SplitSegmentsWithinMax ==
    \A k \in 1 .. Len(parts) :
        ~parts[k].tail => PathLength(parts[k].pts) <= options.max_length

(***************************************************************************)
(* C1, amended.  The trailing remainder of a source line never has a       *)
(* cumulative length greater than max_length, and every segment emitted    *)
(* inside the loop has a cumulative length strictly greater than           *)
(* max_length.                                                             *)
(***************************************************************************)
C1_OnlyTailWithinMax ==
    \A k \in 1 .. Len(parts) :
        IF parts[k].tail
        THEN PathLength(parts[k].pts) <= options.max_length
        ELSE PathLength(parts[k].pts) > options.max_length

C1_Witness ==
    /\ SplitDone
    /\ \E a, b \in 1 .. Len(parts) : ~parts[a].tail /\ parts[b].tail

(***************************************************************************)
(* C2.  When split_linestring has emitted segments S1..Sn (n >= 1) for a   *)
(* linestring L, the last point of Si is the first point of S(i+1), and    *)
(* S1..Sn joined with each shared boundary point kept once is L.           *)
(***************************************************************************)
C2_SegmentsReconstructLine ==
    (SplitDone /\ Len(parts) >= 1) =>
        /\ \A k \in 1 .. Len(parts) - 1 :
              parts[k].pts[Len(parts[k].pts)] = parts[k + 1].pts[1]
        /\ Joined(parts) = line

C2_Witness ==
    /\ SplitDone
    /\ Len(parts) >= 3
    /\ parts[Len(parts)].tail

(***************************************************************************)
(* C3.  As claimed: a linestring of any number of points >= 1 whose total  *)
(* length is <= max_length and which skip_ring keeps yields exactly one    *)
(* segment, equal to the linestring.                                       *)
(***************************************************************************)
C3_ShortLineOneSegment ==
    (SplitDone /\ PathLength(line) <= options.max_length) =>
        (Len(parts) = 1 /\ parts[1].pts = line)

(***************************************************************************)
(* C3, amended.  A linestring of at least 2 points whose total length is   *)
(* <= max_length and which skip_ring keeps yields exactly one segment,     *)
(* equal to the linestring.                                                *)
(***************************************************************************)
C3_ShortLineOfTwoPointsOneSegment ==
    (SplitDone /\ Len(line) >= 2 /\ PathLength(line) <= options.max_length) =>
        (Len(parts) = 1 /\ parts[1].pts = line)

C3_Witness ==
    /\ SplitDone
    /\ Len(line) >= 2
    /\ PathLength(line) = options.max_length
    /\ Len(parts) = 1

(***************************************************************************)
(* C4.  Every segment handed to write_part has at least 2 points, for      *)
(* every min_length and max_length the command line accepts.               *)
(***************************************************************************)
C4_SegmentsHaveTwoPoints ==
    \A k \in 1 .. Len(parts) : Len(parts[k].pts) >= 2

(***************************************************************************)
(* C5.  skip_ring returns false for a closed line of more than 5 points,   *)
(* and for every other line it returns true iff the total length of the    *)
(* line is strictly less than min_length.                                  *)
(***************************************************************************)
C5_SkipRing ==
    pc = "returned" =>
        IF line[1] = line[Len(line)] /\ Len(line) > 5
        THEN last = "kept"
        ELSE (last = "skipped") <=> (PathLength(line) < options.min_length)

C5_Witness ==
    /\ pc = "returned"
    /\ Len(line) = 6
    /\ line[1] = line[6]
    /\ 0 < PathLength(line)
    /\ PathLength(line) < options.min_length
    /\ last = "kept"

(***************************************************************************)
(* C6.  With transaction_size > 0, whenever the counter exceeds            *)
(* transaction_size after an emission, CommitTransaction is issued, then   *)
(* immediately StartTransaction, and the counter is reset to zero.         *)
(***************************************************************************)
C6_CommitThenStart ==
    (options.transaction_size > 0 /\ exceeded) =>
        /\ \E k \in 1 .. Len(calls) - 1 :
              /\ calls[k].op = "CommitTransaction"
              /\ calls[k + 1].op = "StartTransaction"
        /\ pc # "aborted" => m_transaction_count = 0

(***************************************************************************)
(* C7.  The counter counts every emitted segment of the run: with          *)
(* transaction_size = B > 0 the intermediate commit is issued when the     *)
(* (B+1)-th segment since the last reset is emitted, so that never more    *)
(* than B segments have been written since the last reset.                 *)
(***************************************************************************)
C7_CommitAtEverySegmentBeyondBatch ==
    (options.transaction_size > 0 /\ pc # "aborted") =>
        sinceCommit <= options.transaction_size

(***************************************************************************)
(* C8.  Whenever a StartTransaction or CommitTransaction call fails, the   *)
(* run aborts with a non-zero exit status.                                 *)
(***************************************************************************)
C8_FailedTransactionCallAborts ==
    \A k \in 1 .. Len(calls) :
        (calls[k].op \in {"StartTransaction", "CommitTransaction"} /\ ~calls[k].ok)
            => (pc = "aborted" /\ exit_status > 0)

(***************************************************************************)
(* C9.  At most one transaction is open on the output layer.               *)
(***************************************************************************)
C9_AtMostOneOpenTransaction == txnOpen <= 1

(***************************************************************************)
(* C10.  With transaction_size = 0 the counter-driven commit never fires:  *)
(* no CommitTransaction is issued while a linestring is split.             *)
(***************************************************************************)
C10_NoBatchCommitWhenUnbounded ==
    options.transaction_size = 0 =>
        /\ ~exceeded
        /\ last = "splitting" => ~Issued("CommitTransaction")

(***************************************************************************)
(* C11.  At the end of a run that did not abort, finalize has committed    *)
(* the open transaction and flushed the output, and no transaction is left *)
(* open; when the commit of finalize fails the run aborts with a non-zero  *)
(* status and nothing is flushed.                                          *)
(***************************************************************************)
C11_FinalizeLeavesNothingOpen ==
    /\ pc = "done" => (synced /\ exit_status = 0 /\ txnOpen = 0)
    /\ (pc = "aborted" /\ calls = <<Call("CommitTransaction", FALSE)>>)
          => (~synced /\ exit_status > 0)

(***************************************************************************)
(* C12.  The distance mode is geographic iff the input CRS is geographic   *)
(* or --geographic was passed, and --geographic is accepted: a run that    *)
(* was passed it aborts only on a failed call of the output layer.         *)
(***************************************************************************)
C12_GeographicOptionAccepted ==
    /\ m_geographic_mode = (srs_geographic \/ argv_geographic)
    /\ (argv_geographic /\ pc = "aborted") => calls # <<>>

(***************************************************************************)
(* C13.  A linestring for which skip_ring returns true produces no output  *)
(* feature and leaves the writer alone: no call of the output layer, the   *)
(* transaction state and the batching counter unchanged.                   *)
(***************************************************************************)
C13_SkippedLineLeavesWriterAlone ==
    [][(pc = "feature" /\ last' = "skipped") =>
          /\ calls' = <<>>
          /\ parts' = <<>>
          /\ txnOpen' = txnOpen
          /\ m_transaction_count' = m_transaction_count
          /\ sinceCommit' = sinceCommit
          /\ exit_status' = exit_status]_vars

C13_Witness ==
    /\ last = "skipped"
    /\ m_transaction_count > 0
    /\ sinceCommit > 0

(***************************************************************************)
(* C14.  The features written by a run are, in order, the segments each    *)
(* linestring handed to split_linestring yields when split alone (none for *)
(* a linestring skip_ring filters), in the order the linestrings are       *)
(* handed over; while a linestring is being split, or after an abort, they *)
(* are a prefix of that sequence.                                          *)
(***************************************************************************)
\* the segments of linestring l split alone, from point k on, with the run
\* of points buf since the last split
RECURSIVE AloneFrom(_, _, _)
AloneFrom(l, k, buf) ==
    IF k > Len(l) THEN (IF Len(buf) >= 2 THEN <<buf>> ELSE <<>>)
    ELSE LET run1 == Append(buf, l[k])
         IN IF PathLength(run1) > options.max_length
            THEN <<run1>> \o AloneFrom(l, k + 1, <<l[k]>>)
            ELSE AloneFrom(l, k + 1, run1)

RECURSIVE ExpectedOutput(_)
ExpectedOutput(hs) ==
    IF hs = <<>> THEN <<>>
    ELSE LET h == hs[Len(hs)]
         IN ExpectedOutput(SubSeq(hs, 1, Len(hs) - 1))
                \o (IF skip_ring(m_geographic_mode, h.line, options.min_length)
                    THEN <<>>
                    ELSE AloneFrom(h.line, 1, <<>>))

WrittenPoints == [k \in 1 .. Len(written) |-> written[k].pts]

C14_OutputIsConcatenation ==
    observing =>
        LET expected == ExpectedOutput(handled)
        IN /\ Len(written) <= Len(expected)
           /\ WrittenPoints = SubSeq(expected, 1, Len(written))
           /\ pc \in {"run", "feature", "finalize", "done"}
                 => Len(written) = Len(expected)

C14_Witness ==
    /\ observing
    /\ pc = "done"
    /\ Len(handled) = 2
    /\ Len(written) >= 3
    /\ written[1].pts[1] # written[Len(written)].pts[1]

(***************************************************************************)
(* C15.  Every feature write_part creates carries the field values of the  *)
(* feature being processed, the write leaves those values alone, and they  *)
(* do not change while the feature is processed.                           *)
(***************************************************************************)
C15_FieldsCopied ==
    [][/\ Len(parts') = Len(parts) + 1 =>
             /\ parts'[Len(parts')].fields = fields
             /\ fields' = fields
       /\ pc # "run" => fields' = fields]_vars

C15_Witness ==
    /\ consumed = 2
    /\ fields = <<"b", "y">>
    /\ Len(parts) >= 2
    /\ \A k \in 1 .. Len(parts) : parts[k].fields = <<"b", "y">>

(***************************************************************************)
(* C16.  The split test is strict: an iteration of the loop at point i     *)
(* emits a segment iff the length accumulated since the last split (or the *)
(* line start), hop (i-1, i) included, is strictly greater than            *)
(* max_length; after a split the accumulator is 0 and the buffer holds     *)
(* point i only; otherwise point i and the hop are accumulated.            *)
(***************************************************************************)
C16_StrictSplitTest ==
    [][(pc = "loop" /\ pc' = "loop" /\ i' = i + 1) =>
          LET run1 == Append(coords, line[i + 1])
              split == Len(parts') = Len(parts) + 1
          IN /\ split <=> PathLength(run1) > options.max_length
             /\ split => (length' = 0 /\ coords' = <<line[i + 1]>>)
             /\ ~split => (length' = PathLength(run1) /\ coords' = run1
                           /\ parts' = parts)]_vars

C16_Witness ==
    /\ pc = "loop"
    /\ Len(coords) >= 2
    /\ options.max_length > 0
    /\ length = options.max_length
    /\ parts = <<>>

(***************************************************************************)
(* C17.  For max_length >= 0 every segment emitted inside the loop is a    *)
(* minimal over-long run: its cumulative length is > max_length and,       *)
(* without its last point, <= max_length.                                  *)
(***************************************************************************)
C17_SplitSegmentsMinimal ==
    options.max_length >= 0 =>
        \A k \in 1 .. Len(parts) :
            ~parts[k].tail =>
                /\ PathLength(parts[k].pts) > options.max_length
                /\ PathLength(SubSeq(parts[k].pts, 1, Len(parts[k].pts) - 1))
                       <= options.max_length

C17_Witness ==
    /\ options.max_length >= 0
    /\ Len(parts) >= 2
    /\ ~parts[1].tail
    /\ ~parts[2].tail
    /\ Len(parts[2].pts) >= 3

(***************************************************************************)
(* C18.  Every CommitTransaction is issued, and every feature is created,  *)
(* while a transaction started by StartTransaction is open.                *)
(***************************************************************************)
C18_CallsInsideTransaction ==
    [][\A k \in 1 .. Len(calls') :
          calls'[k].op \in {"CommitTransaction", "CreateFeature"}
              => LayerAfter(txnOpen, SubSeq(calls', 1, k - 1)) > 0]_vars

(***************************************************************************)
(* C19.  m_transaction_count stays within 0 .. transaction_size between    *)
(* the steps of a run, and changes only in the loop of split_linestring:   *)
(* by one at an emitted segment, or to zero in the batch block.            *)
(***************************************************************************)
C19_CounterWithinBatch ==
    [][/\ pc' # "aborted" =>
             /\ 0 <= m_transaction_count'
             /\ m_transaction_count' <= options.transaction_size
       /\ m_transaction_count' # m_transaction_count =>
             /\ pc = "loop"
             /\ \/ m_transaction_count' = m_transaction_count + 1
                \/ exceeded' /\ m_transaction_count' = 0]_vars

C19_Witness ==
    /\ pc = "loop"
    /\ i = 0
    /\ parts = <<>>
    /\ m_transaction_count = 2

====
